---- MODULE Spec2Model ----
(***************************************************************************)
(* A model of the atom library of the dsp package (src/dsp/atoms.py) and   *)
(* of the canonicalizers that register the saddle-extremum atoms with the  *)
(* cone compiler (src/dspp/semi_infinite_canon.py,                         *)
(* src/dspp/cvxpy_integration.py).                                         *)
(*                                                                         *)
(* Three specifications share the module:                                  *)
(*   Spec         saddle_max / saddle_min: construction, the memoised      *)
(*                parser property, is_dsp, curvature queries,              *)
(*                canonicalization                                         *)
(*   SpecAtoms    the convex-concave atoms: construction and get_K_repr    *)
(*   SpecNumeric  numeric evaluation of saddle-extremum atoms              *)
(***************************************************************************)
EXTENDS Integers, Sequences, FiniteSets, TLC

VARIABLES atoms, expr, last, ccAtom, ccLast, warned, kreprs,
          xValue, yValue, numLast

scopeVars == <<atoms, expr, last>>

atomVars == <<ccAtom, ccLast, warned, kreprs>>

numericVars == <<xValue, yValue, numLast>>

vars ==
    <<atoms, expr, last, ccAtom, ccLast, warned, kreprs, xValue, yValue,
      numLast>>

(***************************************************************************)
(* The universe of cvxpy variables: two LocalVariable instances and one    *)
(* ordinary cp.Variable.                                                   *)
(***************************************************************************)
LocalVars == {"y1", "y2"}

OrdinaryVars == {"x"}

Vars == LocalVars \cup OrdinaryVars

\* Number of saddle-extremum objects whose construction reaches is_dsp().
MaxAtoms == 2

\* Sizes of the objective expression f offered to a constructor.
FSizes == {1, 2}

Kinds == {"saddle_max", "saddle_min"}

\* isinstance(v, LocalVariable)
IsLocalVariable(v) == v \in LocalVars

\* The variable lists offered to a constructor: one or two distinct
\* variables.
VarLists == {<<a>> : a \in Vars} \cup {<<"y1", "y2">>, <<"y1", "x">>}

\* The objectives offered, each named by the non-empty set of variables the
\* parser recognizes in it as belonging to the extremized side.
Objectives == (SUBSET LocalVars) \ {{}}

\* The sets of variables occurring in the constraint lists offered.
ConstraintVarSets == SUBSET {"y1", "x"}

SeqToSet(s) == {s[i] : i \in 1..Len(s)}

NoError == "none"

(***************************************************************************)
(* SaddleExtremum._validate_arguments: the assertion on the size of f, the *)
(* check of the extremized variables, then the check of the variables of   *)
(* every constraint.  Returns the exception raised, or NoError.            *)
(***************************************************************************)
ValidateForgetsConstraints(fSize, constraintVars, variables) ==
    IF fSize # 1 THEN "AssertionError"
    ELSE IF \E v \in SeqToSet(variables) : ~IsLocalVariable(v)
         THEN "LocalVariableError"
    ELSE NoError

_validate_arguments(fSize, constraintVars, variables) ==
    IF fSize # 1 THEN "AssertionError"
    ELSE IF \E v \in SeqToSet(variables) : ~IsLocalVariable(v)
         THEN "LocalVariableError"
    ELSE IF \E v \in constraintVars : ~IsLocalVariable(v)
         THEN "LocalVariableError"
    ELSE NoError

(***************************************************************************)
(* The setter of LocalVariable.expr (dsp/local.py): a local variable       *)
(* belongs to one saddle-extremum scope; tagging it with a second atom is  *)
(* an error and leaves the tag as it was.  ex maps each local variable to  *)
(* the index of the atom it is scoped to, 0 for None.                      *)
(***************************************************************************)
SetExpr(v, id, ex) ==
    IF ex[v] # 0 /\ ex[v] # id
    THEN [err |-> "LocalVariableError", expr |-> ex]
    ELSE [err |-> NoError, expr |-> [ex EXCEPT ![v] = id]]

\* for v in self.concave_vars: v.expr = self   (in list order)
RECURSIVE TagLoop(_, _, _)
TagLoop(vs, id, ex) ==
    IF vs = <<>> THEN [err |-> NoError, expr |-> ex]
    ELSE LET s == SetExpr(Head(vs), id, ex)
         IN IF s.err # NoError THEN s ELSE TagLoop(Tail(vs), id, s.expr)

(***************************************************************************)
(* init_parser_wrapper / initialize_parser (dsp/parser.py): the parser     *)
(* partitions the variables of the objective; self.f stands for the set of *)
(* variables it recognizes as belonging to the extremized side (its        *)
(* concave_vars; for mode "inf" the objective is negated first, so the     *)
(* same attribute holds the minimization variables).                       *)
(***************************************************************************)
init_parser_wrapper(self) == [concave_vars |-> self.f]

(***************************************************************************)
(* The parser property of saddle_max and of saddle_min (the two bodies     *)
(* differ in the mode and in the name of the variable list only).          *)
(* Returns the exception raised (or NoError), whether _parser is set       *)
(* afterwards, and the tags of the local variables afterwards.             *)
(***************************************************************************)
ParserSkipsSpecifiedCheck(self, id, ex) ==
    IF self.parserSet
    THEN [err |-> NoError, parserSet |-> TRUE, expr |-> ex]
    ELSE LET t == TagLoop(self.vars, id, ex)
         IN [err |-> t.err, parserSet |-> (t.err = NoError), expr |-> t.expr]

parser(self, id, ex) ==
    IF self.parserSet
    THEN [err |-> NoError, parserSet |-> TRUE, expr |-> ex]
    ELSE LET p == init_parser_wrapper(self)
             all_vars_specified == SeqToSet(self.vars) = p.concave_vars
             all_vars_local ==
                 \A v \in SeqToSet(self.vars) : IsLocalVariable(v)
         IN IF ~all_vars_local
            THEN [err |-> "LocalVariableError", parserSet |-> FALSE,
                  expr |-> ex]
            ELSE IF ~all_vars_specified
            THEN [err |-> "DSPError", parserSet |-> FALSE, expr |-> ex]
            ELSE LET t == TagLoop(self.vars, id, ex)
                 IN [err |-> t.err, parserSet |-> (t.err = NoError),
                     expr |-> t.expr]

(***************************************************************************)
(* SaddleExtremum.is_dsp: True when the parser can be had, False when it   *)
(* raises DSPError; any other exception propagates.                        *)
(***************************************************************************)
IsDspCatchesEverything(self, id, ex) ==
    LET r == parser(self, id, ex)
    IN [err |-> NoError, ret |-> (r.err = NoError),
        parserSet |-> r.parserSet, expr |-> r.expr]

is_dsp(self, id, ex) ==
    LET r == parser(self, id, ex)
    IN IF r.err = NoError
       THEN [err |-> NoError, ret |-> TRUE,
             parserSet |-> r.parserSet, expr |-> r.expr]
       ELSE IF r.err = "DSPError"
       THEN [err |-> NoError, ret |-> FALSE,
             parserSet |-> r.parserSet, expr |-> r.expr]
       ELSE [err |-> r.err, ret |-> FALSE,
             parserSet |-> r.parserSet, expr |-> r.expr]

(***************************************************************************)
(* The curvature queries.  saddle_max is convex when it is DSP and never   *)
(* concave; saddle_min is concave when it is DSP and never convex.  The    *)
(* constant answers do not touch the parser.                               *)
(***************************************************************************)
Never(self, ex) ==
    [err |-> NoError, ret |-> FALSE, parserSet |-> self.parserSet,
     expr |-> ex]

saddle_max_is_atom_convex(self, id, ex) == is_dsp(self, id, ex)

saddle_max_is_atom_concave(self, id, ex) == Never(self, ex)

saddle_min_is_atom_convex(self, id, ex) == Never(self, ex)

saddle_min_is_atom_concave(self, id, ex) == is_dsp(self, id, ex)

IsAtomConcaveLikeConvex(self, id, ex) ==
    IF self.kind = "saddle_max"
    THEN saddle_max_is_atom_convex(self, id, ex)
    ELSE saddle_min_is_atom_concave(self, id, ex)

is_atom_convex(self, id, ex) ==
    IF self.kind = "saddle_max"
    THEN saddle_max_is_atom_convex(self, id, ex)
    ELSE saddle_min_is_atom_convex(self, id, ex)

is_atom_concave(self, id, ex) ==
    IF self.kind = "saddle_max"
    THEN saddle_max_is_atom_concave(self, id, ex)
    ELSE saddle_min_is_atom_concave(self, id, ex)

(***************************************************************************)
(* Canonicalization.  semi_infinite_epigraph (dspp/problem.py) builds the  *)
(* auxiliary program of an extremum: an objective expression and a list of *)
(* auxiliary constraints, both determined by the objective, the bound      *)
(* variables, the local constraint list (named by its owner) and the mode. *)
(* An objective is a signed term over what it was built from.              *)
(***************************************************************************)
semi_infinite_epigraph(f, variables, constraints, mode) ==
    [sign |-> 1, mode |-> mode, f |-> f, vars |-> variables,
     aux |-> [mode |-> mode, constraints |-> constraints]]

Negate(obj) == [obj EXCEPT !.sign = -obj.sign]

concave_max_canon(self, id) ==
    semi_infinite_epigraph(self.f, self.vars, id, "sup")

ConvexMinCanonKeepsSign(self, id) ==
    semi_infinite_epigraph(self.f, self.vars, id, "inf")

convex_min_canon(self, id) ==
    Negate(semi_infinite_epigraph(self.f, self.vars, id, "inf"))

\* CANON_METHODS after extend_cone_canon_methods()
CANON_METHODS(self, id) ==
    IF self.kind = "saddle_max" THEN concave_max_canon(self, id)
    ELSE convex_min_canon(self, id)

(***************************************************************************)
(* State.  atoms is the list of saddle-extremum objects in creation order; *)
(* expr is the expr attribute of every LocalVariable (0 for None); last    *)
(* records the latest call and what it returned or raised.                 *)
(***************************************************************************)
NoCanon ==
    [sign |-> 0, mode |-> "none", f |-> {}, vars |-> <<>>,
     aux |-> [mode |-> "none", constraints |-> 0]]

NoCall ==
    [op |-> "init", atom |-> 0, err |-> NoError,
     ret |-> FALSE, fScalar |-> TRUE, nonlocal |-> FALSE,
     specified |-> FALSE, rebinds |-> FALSE, canon |-> NoCanon]

\* The object of a constructor that raised: nothing refers to it any more
\* except the expr tags it may have set.
Discarded ==
    [status |-> "failed", kind |-> "none", vars |-> <<>>, f |-> {},
     parserSet |-> FALSE]

ScopeInit ==
    /\ atoms = <<>>
    /\ expr = [v \in LocalVars |-> 0]
    /\ last = NoCall

Built == {i \in 1..Len(atoms) : atoms[i].status = "built"}

(***************************************************************************)
(* saddle_max.__init__ / saddle_min.__init__: validate the arguments,      *)
(* store them, reset _parser, then call is_dsp() so that the local         *)
(* variables get tagged.  f is the set of variables the parser will        *)
(* recognize as extremized in the objective.                               *)
(***************************************************************************)
Construct(kind, fSize, f, variables, constraintVars) ==
    /\ Len(atoms) < MaxAtoms
    /\ UNCHANGED <<atomVars, numericVars>>
    /\ LET id == Len(atoms) + 1
           verr == _validate_arguments(fSize, constraintVars, variables)
           self == [status |-> "built", kind |-> kind, vars |-> variables,
                    f |-> f, parserSet |-> FALSE]
           d == is_dsp(self, id, expr)
           call == [NoCall EXCEPT
                      !.op = "construct",
                      !.fScalar = (fSize = 1),
                      !.nonlocal =
                          \E v \in SeqToSet(variables) \cup constraintVars :
                              v \notin LocalVars]
           checked == [call EXCEPT
                      !.specified = (SeqToSet(variables) = f),
                      !.rebinds =
                          \E v \in SeqToSet(variables) \cap LocalVars :
                              expr[v] # 0]
       IN IF verr # NoError
          THEN /\ last' = [call EXCEPT !.err = verr]
               /\ UNCHANGED <<atoms, expr>>
          ELSE IF d.err # NoError
          THEN /\ atoms' = Append(atoms, Discarded)
               /\ expr' = d.expr
               /\ last' = [checked EXCEPT !.err = d.err]
          ELSE /\ atoms' =
                     Append(atoms, [self EXCEPT !.parserSet = d.parserSet])
               /\ expr' = d.expr
               /\ last' = [checked EXCEPT !.atom = id, !.ret = d.ret]

\* A read of atom.parser (directly, or through convex_vars / concave_vars).
AccessParser(i) ==
    /\ i \in Built
    /\ UNCHANGED <<atomVars, numericVars>>
    /\ LET r == parser(atoms[i], i, expr)
       IN /\ atoms' = [atoms EXCEPT ![i].parserSet = r.parserSet]
          /\ expr' = r.expr
          /\ last' = [NoCall EXCEPT !.op = "parser",
                                    !.atom = i, !.err = r.err,
                                    !.ret = r.parserSet]

IsDsp(i) ==
    /\ i \in Built
    /\ UNCHANGED <<atomVars, numericVars>>
    /\ LET d == is_dsp(atoms[i], i, expr)
       IN /\ atoms' = [atoms EXCEPT ![i].parserSet = d.parserSet]
          /\ expr' = d.expr
          /\ last' = [NoCall EXCEPT !.op = "is_dsp",
                                    !.atom = i, !.err = d.err, !.ret = d.ret]

IsAtomConvex(i) ==
    /\ i \in Built
    /\ UNCHANGED <<atomVars, numericVars>>
    /\ LET d == is_atom_convex(atoms[i], i, expr)
       IN /\ atoms' = [atoms EXCEPT ![i].parserSet = d.parserSet]
          /\ expr' = d.expr
          /\ last' = [NoCall EXCEPT !.op = "is_atom_convex", !.atom = i,
                                    !.err = d.err, !.ret = d.ret]

IsAtomConcave(i) ==
    /\ i \in Built
    /\ UNCHANGED <<atomVars, numericVars>>
    /\ LET d == is_atom_concave(atoms[i], i, expr)
       IN /\ atoms' = [atoms EXCEPT ![i].parserSet = d.parserSet]
          /\ expr' = d.expr
          /\ last' = [NoCall EXCEPT !.op = "is_atom_concave", !.atom = i,
                                    !.err = d.err, !.ret = d.ret]

\* The cone compiler looks the atom's class up in CANON_METHODS and calls
\* the canonicalizer found there.
Canonicalize(i) ==
    /\ i \in Built
    /\ UNCHANGED <<atomVars, numericVars>>
    /\ last' = [NoCall EXCEPT !.op = "canon", !.atom = i,
                              !.canon = CANON_METHODS(atoms[i], i)]
    /\ UNCHANGED <<atoms, expr>>

ScopeNext ==
    \/ \E kind \in Kinds, fSize \in FSizes, f \in Objectives,
          variables \in VarLists, constraintVars \in ConstraintVarSets :
          Construct(kind, fSize, f, variables, constraintVars)
    \/ \E i \in 1..MaxAtoms : AccessParser(i)
    \/ \E i \in 1..MaxAtoms : IsDsp(i)
    \/ \E i \in 1..MaxAtoms : IsAtomConvex(i)
    \/ \E i \in 1..MaxAtoms : IsAtomConcave(i)
    \/ \E i \in 1..MaxAtoms : Canonicalize(i)

(***************************************************************************)
(* The convex-concave atoms.  An argument expression is described by what  *)
(* cvxpy reports of it: its curvature and whether its sign is known to be  *)
(* non-negative.                                                           *)
(***************************************************************************)
Curvatures == {"affine", "convex", "concave", "unknown"}

Exprs == [curv : Curvatures, nonneg : BOOLEAN]

is_affine(e) == e.curv = "affine"

is_convex(e) == e.curv \in {"affine", "convex"}

is_concave(e) == e.curv \in {"affine", "concave"}

is_nonneg(e) == e.nonneg

NoExpr == [curv |-> "unknown", nonneg |-> FALSE]

NoAtom ==
    [cls |-> "none", a |-> NoExpr, b |-> NoExpr, bilinear |-> FALSE,
     concave_composition |-> FALSE]

Raised(e, w) == [err |-> e, warnings |-> w, atom |-> NoAtom]

(***************************************************************************)
(* saddle_inner.__init__.  cls is the class being instantiated             *)
(* (saddle_inner, or inner through super().__init__).  shapeOk says        *)
(* whether Fx is a vector and Fx, Gy have matching shapes or sizes.        *)
(***************************************************************************)
SaddleInnerInitAlwaysBilinear(cls, Fx, Gy, shapeOk) ==
    IF ~shapeOk THEN Raised("AssertionError", 0)
    ELSE [err |-> NoError, warnings |-> 0,
          atom |-> [cls |-> cls, a |-> Fx, b |-> Gy, bilinear |-> TRUE,
                    concave_composition |-> FALSE]]

saddle_inner_init(cls, Fx, Gy, shapeOk) ==
    IF ~(is_affine(Fx) /\ is_affine(Gy))
    THEN IF ~is_convex(Fx) THEN Raised("AssertionError", 0)
         ELSE IF ~is_nonneg(Fx) THEN Raised("AssertionError", 0)
         ELSE IF ~is_concave(Gy) THEN Raised("AssertionError", 0)
         ELSE LET w == IF ~is_nonneg(Gy) THEN 1 ELSE 0
              IN IF ~shapeOk THEN Raised("AssertionError", w)
                 ELSE [err |-> NoError, warnings |-> w,
                       atom |-> [cls |-> cls, a |-> Fx, b |-> Gy,
                                 bilinear |-> FALSE,
                                 concave_composition |-> FALSE]]
    ELSE IF ~shapeOk THEN Raised("AssertionError", 0)
         ELSE [err |-> NoError, warnings |-> 0,
               atom |-> [cls |-> cls, a |-> Fx, b |-> Gy, bilinear |-> TRUE,
                         concave_composition |-> FALSE]]

\* inner.__init__
inner_init(Fx, Gy, shapeOk) ==
    IF ~(is_affine(Fx) /\ is_affine(Gy)) THEN Raised("AssertionError", 0)
    ELSE saddle_inner_init("inner", Fx, Gy, shapeOk)

\* weighted_log_sum_exp.__init__
weighted_log_sum_exp_init(exponents, weights, shapeOk) ==
    IF ~is_convex(exponents) THEN Raised("AssertionError", 0)
    ELSE IF ~is_concave(weights) THEN Raised("AssertionError", 0)
    ELSE LET w == IF ~is_nonneg(weights) THEN 1 ELSE 0
         IN IF ~shapeOk THEN Raised("AssertionError", w)
            ELSE [err |-> NoError, warnings |-> w,
                  atom |-> [cls |-> "weighted_log_sum_exp",
                            a |-> exponents, b |-> weights,
                            bilinear |-> FALSE,
                            concave_composition |-> ~is_affine(weights)]]

\* saddle_quad_form.__init__: P must be PSD and x.size must be P.shape[0].
saddle_quad_form_init(x, P, psd, sizeOk) ==
    IF ~psd THEN Raised("AssertionError", 0)
    ELSE IF ~sizeOk THEN Raised("AssertionError", 0)
    ELSE [err |-> NoError, warnings |-> 0,
          atom |-> [cls |-> "saddle_quad_form", a |-> x, b |-> P,
                    bilinear |-> FALSE, concave_composition |-> FALSE]]

(***************************************************************************)
(* K-Representations.  Every cp.Variable(...) and every constraint built   *)
(* in a call is a new object: an object is named by what it is and by the  *)
(* call (gen) that made it.  A dualized constraint list keeps the list it  *)
(* was formed from in its field of.                                        *)
(***************************************************************************)
Var(name, gen) == [name |-> name, gen |-> gen]

Con(tag, gen) == [tag |-> tag, gen |-> gen, of |-> <<>>]

\* KRepresentation(f=..., t=..., constraints=...) (dsp/cone_transforms.py):
\* y_constraints defaults to an empty list, concave_expr to nothing.
KRepresentation(f, t, constraints) ==
    [f |-> f, t |-> t, constraints |-> constraints, y_constraints |-> <<>>,
     concave_expr |-> "unset"]

\* K_repr_bilin(Fx, Gy, local_to_glob) (dsp/cone_transforms.py); args names
\* the pair of expressions it is given.
K_repr_bilin(args, gen) ==
    KRepresentation(Var("f_bilin", gen), Var("t_bilin", gen),
                    <<Con(args, gen)>>)

\* K_repr_FxGy(Fx, Gy, local_to_glob, switched) (dsp/cone_transforms.py)
K_repr_FxGy(switched, gen) ==
    KRepresentation(Var("f_FxGy", gen), Var("t_FxGy", gen),
                    <<Con(IF switched THEN "FxGy switched" ELSE "FxGy",
                          gen)>>)

\* switch_convex_concave(constraints, f, t, variables, local_to_glob,
\* precomp) (dsp/cone_transforms.py): a new representation whose
\* constraints are the dual feasibility conditions of the given ones.
\* pass numbers the dualizations made within one call.
switch_convex_concave(constraints, f, t, pass, gen) ==
    KRepresentation(
        Var(IF pass = 1 THEN "f_switch_1" ELSE "f_switch_2", gen),
        Var(IF pass = 1 THEN "t_switch_1" ELSE "t_switch_2", gen),
        <<[tag |-> "dual", gen |-> gen, of |-> constraints]>>)

\* The implicit domain constraints.
DomainTags == {"Gy >= 0", "weights >= 0"}

SaddleInnerKReprBothSides(self, switched, gen) ==
    LET K0 == K_repr_FxGy(switched, gen)
        d == <<Con("Gy >= 0", gen)>>
    IN [K |-> [K0 EXCEPT !.constraints = @ \o d, !.y_constraints = @ \o d,
                         !.concave_expr = "get_concave_expression"],
        passes |-> 0, z |-> <<>>]

SaddleInnerKReprInnerSide(self, switched, gen) ==
    LET K0 == IF self.bilinear
              THEN IF ~switched THEN K_repr_bilin("bilin(Fx, Gy)", gen)
                   ELSE K_repr_bilin("bilin(-Gy, Fx)", gen)
              ELSE K_repr_FxGy(switched, gen)
        d == <<Con("Gy >= 0", gen)>>
        K1 == IF ~self.bilinear /\ ~is_nonneg(self.b)
              THEN IF ~switched
                   THEN [K0 EXCEPT !.constraints = @ \o d]
                   ELSE [K0 EXCEPT !.y_constraints = @ \o d]
              ELSE K0
    IN [K |-> [K1 EXCEPT !.concave_expr =
                   IF ~switched THEN "get_concave_expression"
                   ELSE "-get_convex_expression"],
        passes |-> 0, z |-> <<>>]

(***************************************************************************)
(* saddle_inner.get_K_repr (inherited by inner).                           *)
(***************************************************************************)
saddle_inner_get_K_repr(self, switched, gen) ==
    LET K0 == IF self.bilinear
              THEN IF ~switched THEN K_repr_bilin("bilin(Fx, Gy)", gen)
                   ELSE K_repr_bilin("bilin(-Gy, Fx)", gen)
              ELSE K_repr_FxGy(switched, gen)
        d == <<Con("Gy >= 0", gen)>>
        K1 == IF ~self.bilinear /\ ~is_nonneg(self.b)
              THEN IF ~switched
                   THEN [K0 EXCEPT !.y_constraints = @ \o d]
                   ELSE [K0 EXCEPT !.constraints = @ \o d]
              ELSE K0
    IN [K |-> [K1 EXCEPT !.concave_expr =
                   IF ~switched THEN "get_concave_expression"
                   ELSE "-get_convex_expression"],
        passes |-> 0, z |-> <<>>]

(***************************************************************************)
(* weighted_log_sum_exp.get_K_repr.                                        *)
(***************************************************************************)
WlseKReprTwoPassesInBothRoles(self, switched, gen) ==
    LET comp == self.concave_composition
        z == IF comp THEN <<Var("z_wlse", gen)>> ELSE <<>>
        base == <<Con("epi_exp >= exponents", gen), Con("ExpCone", gen),
                  Con("t >= -u - 1", gen)>>
        constraints ==
            IF comp
            THEN base \o <<Con("t_global == t", gen),
                           Con("f_global == f_local", gen)>>
            ELSE base \o <<Con("t_global == t + f_local @ c", gen),
                           Con("f_global == B.T @ f_local", gen)>>
        t_global == Var("t_global", gen)
        f_global == Var(IF comp THEN "f_global_wlse_comp"
                        ELSE "f_global_wlse", gen)
        K_repr == KRepresentation(f_global, t_global, constraints)
        K_out0 == IF switched
                  THEN switch_convex_concave(constraints, f_global,
                                             t_global, 1, gen)
                  ELSE K_repr
        K_switch_1 ==
            LET K == switch_convex_concave(K_out0.constraints, K_out0.f,
                                           K_out0.t, 1, gen)
            IN [K EXCEPT !.constraints = @ \o <<Con("weights >= z", gen)>>]
        K_out1 ==
            IF comp
            THEN switch_convex_concave(K_switch_1.constraints,
                                       K_switch_1.f, K_switch_1.t, 2, gen)
            ELSE K_out0
        d == <<Con("weights >= 0", gen)>>
        K_out2 ==
            IF ~is_nonneg(self.b)
            THEN IF switched
                 THEN [K_out1 EXCEPT !.constraints = @ \o d]
                 ELSE [K_out1 EXCEPT !.y_constraints = @ \o d]
            ELSE K_out1
    IN [K |-> [K_out2 EXCEPT !.concave_expr =
                   IF ~switched THEN "get_concave_expression"
                   ELSE "-get_convex_expression"],
        passes |-> IF comp THEN 2 ELSE IF switched THEN 1 ELSE 0,
        z |-> z]

weighted_log_sum_exp_get_K_repr(self, switched, gen) ==
    LET comp == self.concave_composition
        z == IF comp THEN <<Var("z_wlse", gen)>> ELSE <<>>
        base == <<Con("epi_exp >= exponents", gen), Con("ExpCone", gen),
                  Con("t >= -u - 1", gen)>>
        constraints ==
            IF comp
            THEN base \o <<Con("t_global == t", gen),
                           Con("f_global == f_local", gen)>>
            ELSE base \o <<Con("t_global == t + f_local @ c", gen),
                           Con("f_global == B.T @ f_local", gen)>>
        t_global == Var("t_global", gen)
        f_global == Var(IF comp THEN "f_global_wlse_comp"
                        ELSE "f_global_wlse", gen)
        K_repr == KRepresentation(f_global, t_global, constraints)
        K_out0 == IF switched
                  THEN switch_convex_concave(constraints, f_global,
                                             t_global, 1, gen)
                  ELSE K_repr
        K_switch_1 ==
            LET K == switch_convex_concave(K_out0.constraints, K_out0.f,
                                           K_out0.t, 1, gen)
            IN [K EXCEPT !.constraints = @ \o <<Con("weights >= z", gen)>>]
        K_out1 ==
            IF comp
            THEN IF ~switched
                 THEN switch_convex_concave(K_switch_1.constraints,
                                            K_switch_1.f, K_switch_1.t, 2,
                                            gen)
                 ELSE [K_out0 EXCEPT
                          !.constraints = @ \o <<Con("z <= weights", gen)>>]
            ELSE K_out0
        d == <<Con("weights >= 0", gen)>>
        K_out2 ==
            IF ~is_nonneg(self.b)
            THEN IF switched
                 THEN [K_out1 EXCEPT !.constraints = @ \o d]
                 ELSE [K_out1 EXCEPT !.y_constraints = @ \o d]
            ELSE K_out1
    IN [K |-> [K_out2 EXCEPT !.concave_expr =
                   IF ~switched THEN "get_concave_expression"
                   ELSE "-get_convex_expression"],
        passes |-> (IF switched THEN 1 ELSE 0)
                   + (IF comp /\ ~switched THEN 2 ELSE 0),
        z |-> z]

(***************************************************************************)
(* saddle_quad_form.get_K_repr.                                            *)
(***************************************************************************)
saddle_quad_form_get_K_repr(self, switched, gen) ==
    LET t == Var("t_quad_form", gen)
        constraints ==
            <<Con("A[:n, :n] == F_local", gen), Con("A[-1, -1] == 1", gen),
              Con("A[:n, -1] == x", gen), Con("A[-1, :n] == x.T", gen),
              Con("t == 0", gen),
              Con("F_global == B.T @ vec(F_local)", gen)>>
        F_global == Var("f_global_saddle_quad_form", gen)
        K_repr == [KRepresentation(F_global, t, constraints) EXCEPT
                      !.concave_expr = "get_concave_expression"]
    IN IF switched
       THEN [K |-> [switch_convex_concave(constraints, F_global, t, 1, gen)
                       EXCEPT !.concave_expr = "get_convex_expression"],
             passes |-> 1, z |-> <<>>]
       ELSE [K |-> K_repr, passes |-> 0, z |-> <<>>]

\* atom.get_K_repr(local_to_glob, switched), by the atom's class
get_K_repr(self, switched, gen) ==
    IF self.cls \in {"saddle_inner", "inner"}
    THEN saddle_inner_get_K_repr(self, switched, gen)
    ELSE IF self.cls = "weighted_log_sum_exp"
    THEN weighted_log_sum_exp_get_K_repr(self, switched, gen)
    ELSE saddle_quad_form_get_K_repr(self, switched, gen)

(***************************************************************************)
(* State of the atom library: ccAtom is the atom of the latest constructor *)
(* call (NoAtom when it raised), warned the number of warnings that call   *)
(* emitted, kreprs the representations get_K_repr has returned for ccAtom, *)
(* in call order, and ccLast the latest call with its arguments.           *)
(***************************************************************************)
\* Number of get_K_repr calls made on one atom.
MaxCalls == 2

NoCcCall ==
    [op |-> "init", cls |-> "none", a |-> NoExpr, b |-> NoExpr,
     shapeOk |-> TRUE, psd |-> TRUE, err |-> NoError]

AtomsInit ==
    /\ ccAtom = NoAtom
    /\ ccLast = NoCcCall
    /\ warned = 0
    /\ kreprs = <<>>

Constructed(r, call) ==
    /\ ccAtom' = r.atom
    /\ warned' = r.warnings
    /\ kreprs' = <<>>
    /\ ccLast' = [call EXCEPT !.op = "construct", !.err = r.err]

ConstructSaddleInner(Fx, Gy, shapeOk) ==
    /\ UNCHANGED <<scopeVars, numericVars>>
    /\ Constructed(saddle_inner_init("saddle_inner", Fx, Gy, shapeOk),
                   [NoCcCall EXCEPT !.cls = "saddle_inner", !.a = Fx,
                                    !.b = Gy, !.shapeOk = shapeOk])

ConstructInner(Fx, Gy, shapeOk) ==
    /\ UNCHANGED <<scopeVars, numericVars>>
    /\ Constructed(inner_init(Fx, Gy, shapeOk),
                   [NoCcCall EXCEPT !.cls = "inner", !.a = Fx, !.b = Gy,
                                    !.shapeOk = shapeOk])

ConstructWlse(exponents, weights, shapeOk) ==
    /\ UNCHANGED <<scopeVars, numericVars>>
    /\ Constructed(weighted_log_sum_exp_init(exponents, weights, shapeOk),
                   [NoCcCall EXCEPT !.cls = "weighted_log_sum_exp",
                                    !.a = exponents, !.b = weights,
                                    !.shapeOk = shapeOk])

ConstructQuadForm(x, P, psd, sizeOk) ==
    /\ UNCHANGED <<scopeVars, numericVars>>
    /\ Constructed(saddle_quad_form_init(x, P, psd, sizeOk),
                   [NoCcCall EXCEPT !.cls = "saddle_quad_form", !.a = x,
                                    !.b = P, !.shapeOk = sizeOk, !.psd = psd])

GetKRepr(switched) ==
    /\ ccAtom # NoAtom
    /\ Len(kreprs) < MaxCalls
    /\ LET r == get_K_repr(ccAtom, switched, Len(kreprs) + 1)
       IN kreprs' = Append(kreprs, [switched |-> switched, K |-> r.K,
                                    passes |-> r.passes, z |-> r.z])
    /\ ccLast' = [ccLast EXCEPT !.op = "get_K_repr"]
    /\ UNCHANGED <<ccAtom, warned>>
    /\ UNCHANGED <<scopeVars, numericVars>>

AtomsNext ==
    \/ \E Fx \in Exprs, Gy \in Exprs, shapeOk \in BOOLEAN :
          ConstructSaddleInner(Fx, Gy, shapeOk)
    \/ \E Fx \in Exprs, Gy \in Exprs, shapeOk \in BOOLEAN :
          ConstructInner(Fx, Gy, shapeOk)
    \/ \E exponents \in Exprs, weights \in Exprs, shapeOk \in BOOLEAN :
          ConstructWlse(exponents, weights, shapeOk)
    \/ \E x \in Exprs, P \in Exprs, psd \in BOOLEAN, sizeOk \in BOOLEAN :
          ConstructQuadForm(x, P, psd, sizeOk)
    \/ \E switched \in BOOLEAN : GetKRepr(switched)

(***************************************************************************)
(* Numeric evaluation.  x and y are the two variables of the repository's  *)
(* tests, vectors of length 2.  A value is a pair of numerators over the   *)
(* common denominator GridN, and <<>> stands for None (no value assigned). *)
(***************************************************************************)
\* Denominator of the grid of values.
GridN == 3

None == <<>>

\* The points of the grid with non-negative entries that sum to one.
Simplex == {<<i, GridN - i>> : i \in 0..GridN}

\* np.ones(2)
Ones == <<GridN, GridN>>

Values == Simplex \cup {Ones}

\* A = np.array([[1, 2], [3, 4]])
A == <<<<1, 2>>, <<3, 4>>>>

\* A @ y
MatVec(y) == <<A[1][1] * y[1] + A[1][2] * y[2],
               A[2][1] * y[1] + A[2][2] * y[2]>>

Dot(u, v) == u[1] * v[1] + u[2] * v[2]

(***************************************************************************)
(* inner(x, A @ y): get_concave_expression is Fx.value @ Gy, a function of *)
(* y for the value of x; get_convex_expression is Fx @ Gy.value.  Both     *)
(* are numerators over GridN * GridN.  With the needed value missing the   *)
(* product of None with an expression raises (NoneOperandError).          *)
(***************************************************************************)
InnerConcaveExpressionTransposed(xv, y) == Dot(MatVec(xv), y)

inner_get_concave_expression(xv, y) == Dot(xv, MatVec(y))

inner_get_convex_expression(x, yv) == Dot(x, MatVec(yv))

\* weighted_log_sum_exp.get_concave_expression: None when the exponents
\* have no value, else the expression log(y @ exp(x.value)).
weighted_log_sum_exp_get_concave_expression(xv) ==
    IF xv = None THEN "None" ELSE "log(y @ exp(x))"

\* K_repr.concave_expr(values) for the objective 2 * wlse + y[1] +
\* exp(x[1]) as the parser assembles it (dsp/parser.py): None as soon as a
\* term is None.
parse_expr_repr_concave_expr(xv) ==
    IF weighted_log_sum_exp_get_concave_expression(xv) = "None"
    THEN "None" ELSE "2 * log(y @ exp(x)) + y[1] + exp(x[1])"

Max(S) == CHOOSE m \in S : \A n \in S : n <= m

Min(S) == CHOOSE m \in S : \A n \in S : m <= n

\* cp.Problem(cp.Maximize(ccv), [cp.sum(y) == 1]).solve() for y >= 0
MaximizeOverY(xv) ==
    Max({inner_get_concave_expression(xv, y) : y \in Simplex})

\* cp.Problem(cp.Minimize(-ccv), [cp.sum(x) == 1]).solve() for x >= 0
MinimizeOverX(yv) ==
    Min({inner_get_convex_expression(x, yv) : x \in Simplex})

NoResult ==
    [op |-> "init", objective |-> "none", free |-> None, err |-> NoError,
     isNone |-> FALSE, value |-> 0]

(***************************************************************************)
(* saddle_max.numeric for the two objectives of the tests, given the value *)
(* of the free variable x.                                                 *)
(***************************************************************************)
saddle_max_numeric(objective, xv) ==
    IF objective = "wlse"
    THEN IF parse_expr_repr_concave_expr(xv) = "None"
         THEN [NoResult EXCEPT !.isNone = TRUE]
         ELSE NoResult
    ELSE IF xv = None
         THEN [NoResult EXCEPT !.err = "NoneOperandError"]
         ELSE [NoResult EXCEPT !.value = MaximizeOverY(xv)]

\* saddle_min.numeric for the objective inner(x, A @ y), given the value of
\* the free variable y.
saddle_min_numeric(yv) ==
    IF yv = None
    THEN [NoResult EXCEPT !.err = "NoneOperandError"]
    ELSE [NoResult EXCEPT !.value = MinimizeOverX(yv)]

NumericInit ==
    /\ xValue = None
    /\ yValue = None
    /\ numLast = NoResult

\* x.value = v
AssignX(v) ==
    /\ xValue' = v
    /\ numLast' = [NoResult EXCEPT !.op = "assign"]
    /\ UNCHANGED <<yValue, scopeVars, atomVars>>

\* y.value = v
AssignY(v) ==
    /\ yValue' = v
    /\ numLast' = [NoResult EXCEPT !.op = "assign"]
    /\ UNCHANGED <<xValue, scopeVars, atomVars>>

\* sup_y_f.numeric(values) for sup_y_f = saddle_max(objective, [y], ...)
NumericSaddleMax(objective) ==
    /\ numLast' = [saddle_max_numeric(objective, xValue) EXCEPT
                      !.op = "saddle_max.numeric",
                      !.objective = objective, !.free = xValue]
    /\ UNCHANGED <<xValue, yValue, scopeVars, atomVars>>

\* inf_x_f.numeric(values) for inf_x_f = saddle_min(inner(x, A @ y), [x], ...)
NumericSaddleMin ==
    /\ numLast' = [saddle_min_numeric(yValue) EXCEPT
                      !.op = "saddle_min.numeric",
                      !.objective = "inner", !.free = yValue]
    /\ UNCHANGED <<xValue, yValue, scopeVars, atomVars>>

(***************************************************************************)
(* The three formulations of the matrix game of test_semi_infinite_matrix, *)
(* each solved exactly over the grid.  The solver leaves the optimal point *)
(* in the values of the variables it optimizes.                            *)
(***************************************************************************)
\* SaddleProblem(MinimizeMaximize(inner_expr),
\*               [cp.sum(x) == 1, cp.sum(y) == 1]).solve()
SolveSaddleProblem ==
    \E xs \in Simplex, ys \in Simplex :
        /\ \A x \in Simplex : MaximizeOverY(xs) <= MaximizeOverY(x)
        /\ \A y \in Simplex : MinimizeOverX(y) <= MinimizeOverX(ys)
        /\ xValue' = xs
        /\ yValue' = ys
        /\ numLast' = [NoResult EXCEPT !.op = "SaddleProblem.solve",
                                       !.objective = "inner",
                                       !.value = MaximizeOverY(xs)]
        /\ UNCHANGED <<scopeVars, atomVars>>

\* cp.Problem(cp.Minimize(saddle_max(inner_expr, [y], [cp.sum(y) == 1])),
\*            [cp.sum(x) == 1]).solve()
SolveMinimizeSaddleMax ==
    \E xs \in Simplex :
        /\ \A x \in Simplex :
               saddle_max_numeric("inner", xs).value
                   <= saddle_max_numeric("inner", x).value
        /\ xValue' = xs
        /\ numLast' = [NoResult EXCEPT !.op = "Minimize(saddle_max).solve",
                                       !.objective = "inner",
                                       !.value =
                                           saddle_max_numeric("inner",
                                                              xs).value]
        /\ UNCHANGED <<yValue, scopeVars, atomVars>>

\* cp.Problem(cp.Maximize(saddle_min(inner_expr, [x], [cp.sum(x) == 1])),
\*            [cp.sum(y) == 1]).solve()
SolveMaximizeSaddleMin ==
    \E ys \in Simplex :
        /\ \A y \in Simplex :
               saddle_min_numeric(y).value <= saddle_min_numeric(ys).value
        /\ yValue' = ys
        /\ numLast' = [NoResult EXCEPT !.op = "Maximize(saddle_min).solve",
                                       !.objective = "inner",
                                       !.value =
                                           saddle_min_numeric(ys).value]
        /\ UNCHANGED <<xValue, scopeVars, atomVars>>

NumericNext ==
    \/ \E v \in Values : AssignX(v)
    \/ \E v \in Values : AssignY(v)
    \/ \E objective \in {"inner", "wlse"} : NumericSaddleMax(objective)
    \/ NumericSaddleMin
    \/ SolveSaddleProblem
    \/ SolveMinimizeSaddleMax
    \/ SolveMaximizeSaddleMin

Init == ScopeInit /\ AtomsInit /\ NumericInit

Next == ScopeNext

Spec == Init /\ [][Next]_vars

SpecAtoms == Init /\ [][AtomsNext]_vars

SpecNumeric == Init /\ [][NumericNext]_vars

(***************************************************************************)
(* Properties of the saddle-extremum atoms, checked under Spec.           *)
(***************************************************************************)

C2_MismatchRaisesAtConstruction ==
    (last.op = "construct" /\ last.fScalar /\ ~last.nonlocal
        /\ ~last.specified)
        => (last.err = "DSPError" /\ last.atom = 0)

\* C2 (amended): with valid arguments and a declared bound-variable set
\* that is not the set the parser recognizes, the constructor does return
\* an atom: is_dsp() swallows the DSPError, the atom is left without a
\* parser, and the DSPError is raised by every later read of atom.parser
\* (is_dsp() answers False).
C2_MismatchYieldsNonDspAtom ==
    /\ (last.op = "construct" /\ last.fScalar /\ ~last.nonlocal
           /\ ~last.specified)
           => /\ last.err = NoError
              /\ last.atom # 0
              /\ last.ret = FALSE
              /\ ~atoms[last.atom].parserSet
    /\ \A i \in Built :
           SeqToSet(atoms[i].vars) # atoms[i].f => ~atoms[i].parserSet
    /\ (last.op = "parser" /\ ~atoms[last.atom].parserSet)
           => last.err = "DSPError"
    /\ (last.op = "is_dsp" /\ ~atoms[last.atom].parserSet)
           => (last.err = NoError /\ last.ret = FALSE)

C2_Witness ==
    /\ last.op = "parser"
    /\ last.err = "DSPError"
    /\ last.atom \in Built
    /\ SeqToSet(atoms[last.atom].vars) # atoms[last.atom].f

C8_CurvatureFollowsDsp ==
    (last.op \in {"is_atom_convex", "is_atom_concave"}) =>
        LET a == atoms[last.atom]
            dsp == SeqToSet(a.vars) = a.f
        IN /\ last.err = NoError
           /\ last.op = "is_atom_convex" =>
                  last.ret = (a.kind = "saddle_max" /\ dsp)
           /\ last.op = "is_atom_concave" =>
                  last.ret = (a.kind = "saddle_min" /\ dsp)
           /\ ~dsp => last.ret = FALSE

C8_Witness ==
    /\ last.op = "is_atom_convex"
    /\ atoms[last.atom].kind = "saddle_max"
    /\ last.ret = TRUE
    /\ \E i \in Built : atoms[i].kind = "saddle_min" /\ ~atoms[i].parserSet

\* C9: the canonicalizer of saddle_max returns what the epigraph builder
\* returns for mode "sup" over the atom's bound variables; that of
\* saddle_min returns the builder's result for mode "inf" with the
\* objective negated; the auxiliary constraints are the builder's in both.
C9_CanonDiffersInSignOnly ==
    last.op = "canon" =>
        LET a == atoms[last.atom]
            mode == IF a.kind = "saddle_max" THEN "sup" ELSE "inf"
            b == semi_infinite_epigraph(a.f, a.vars, last.atom, mode)
        IN /\ last.canon.sign =
                  (IF a.kind = "saddle_max" THEN b.sign ELSE -b.sign)
           /\ last.canon.mode = mode
           /\ last.canon.f = b.f
           /\ last.canon.vars = a.vars
           /\ last.canon.aux = b.aux

C9_Witness ==
    /\ last.op = "canon"
    /\ atoms[last.atom].kind = "saddle_min"
    /\ last.canon.sign = -1
    /\ last.canon.mode = "inf"

(***************************************************************************)
(* Properties of the convex-concave atoms, checked under SpecAtoms.        *)
(***************************************************************************)

\* C4 (as stated): two get_K_repr calls on the same atom with the same
\* switched flag return identical representations: the same f, t and
\* constraint objects, the second call creating no new variable.
C4_RepeatedKReprIdentical ==
    \A i \in 1..Len(kreprs), j \in 1..Len(kreprs) :
        kreprs[i].switched = kreprs[j].switched
            => kreprs[i].K = kreprs[j].K

\* The number of implicit domain constraints a representation carries, in
\* constraints and y_constraints together.
DomainCount(K) ==
    Cardinality({i \in 1..Len(K.constraints) :
                     K.constraints[i].tag \in DomainTags})
    + Cardinality({i \in 1..Len(K.y_constraints) :
                       K.y_constraints[i].tag \in DomainTags})

\* The atom's weight argument is one the domain constraint is due for: the
\* weights of a weighted_log_sum_exp, or Gy of a non-affine pairing, not
\* recognized as non-negative.
NeedsDomain(atom) ==
    /\ ~is_nonneg(atom.b)
    /\ \/ atom.cls = "weighted_log_sum_exp"
       \/ atom.cls \in {"saddle_inner", "inner"} /\ ~atom.bilinear

\* C5: a weighted_log_sum_exp or pairing atom whose weight is not
\* recognized non-negative (the pairing not being bilinear) emitted exactly
\* one warning when it was built, and every representation it produces
\* carries exactly one implicit non-negativity constraint; otherwise there
\* is no warning and no such constraint.
C5_OneWarningOneDomainConstraint ==
    (ccAtom # NoAtom /\ ccAtom.cls # "saddle_quad_form") =>
        LET n == IF NeedsDomain(ccAtom) THEN 1 ELSE 0
        IN /\ warned = n
           /\ \A k \in 1..Len(kreprs) : DomainCount(kreprs[k].K) = n

C5_Witness ==
    /\ ccAtom.cls = "weighted_log_sum_exp"
    /\ ~is_nonneg(ccAtom.b)
    /\ ccAtom.concave_composition
    /\ warned = 1
    /\ Len(kreprs) = 2
    /\ kreprs[1].switched # kreprs[2].switched
    /\ DomainCount(kreprs[1].K) = 1
    /\ DomainCount(kreprs[2].K) = 1

\* C7: saddle_inner(Fx, Gy) is accepted as bilinear exactly when both
\* arguments are affine; otherwise it is accepted only if Fx is convex and
\* non-negative and Gy is concave; every other combination raises and
\* leaves no atom; the arguments are stored as given.  inner(Fx, Gy)
\* rejects every pair that is not affine/affine, so an inner atom is
\* always bilinear.
C7_PairingCurvatureChecked ==
    (ccLast.op \in {"construct", "get_K_repr"}
        /\ ccLast.cls \in {"saddle_inner", "inner"}) =>
        LET bothAffine == is_affine(ccLast.a) /\ is_affine(ccLast.b)
            general == /\ is_convex(ccLast.a)
                       /\ is_nonneg(ccLast.a)
                       /\ is_concave(ccLast.b)
            accepted == ccAtom # NoAtom
        IN /\ accepted =>
                  /\ ccAtom.bilinear = bothAffine
                  /\ bothAffine \/ general
                  /\ ccAtom.a = ccLast.a /\ ccAtom.b = ccLast.b
                  /\ ccAtom.cls = ccLast.cls
                  /\ ccLast.err = NoError
           /\ ~accepted => ccLast.err = "AssertionError"
           /\ (~bothAffine /\ ~general) => ~accepted
           /\ ccLast.cls = "inner" => (accepted => bothAffine)
           /\ (ccLast.cls = "inner" /\ accepted) => ccAtom.bilinear
           /\ ccLast.shapeOk =>
                  (accepted <=>
                      \/ bothAffine
                      \/ ccLast.cls = "saddle_inner" /\ general)

C7_Witness ==
    /\ ccLast.op = "construct"
    /\ ccLast.cls = "saddle_inner"
    /\ ccAtom # NoAtom
    /\ ~ccAtom.bilinear
    /\ ccAtom.a.curv = "convex"
    /\ ccAtom.b.curv = "concave"

(***************************************************************************)
(* Properties of numeric evaluation, checked under SpecNumeric.            *)
(***************************************************************************)

\* C6: numeric evaluation of a saddle_max whose objective contains
\* weighted_log_sum_exp(x, y) raises the AssertionError "x must have a
\* value" while x has no value, and returns nothing (not even None) then.
C6_NumericFailsWithoutX ==
    (numLast.op = "saddle_max.numeric" /\ numLast.objective = "wlse"
        /\ numLast.free = None)
        => (numLast.err = "AssertionError" /\ ~numLast.isNone)

TopTags(K) == {K.constraints[i].tag : i \in 1..Len(K.constraints)}

\* The tags of the constraints the i-th constraint of a representation was
\* dualized from (none when it is not a dual).
DualizedTags(K, i) ==
    {K.constraints[i].of[j].tag : j \in 1..Len(K.constraints[i].of)}

\* The constraints linking z and the weights.
LinkTags == {"weights >= z", "z <= weights"}

DomainAt(cs) == {i \in 1..Len(cs) : cs[i].tag \in DomainTags}

\* C12: for a weighted_log_sum_exp or a non-affine saddle_inner whose
\* weight is not recognized non-negative, get_K_repr with switched = FALSE
\* appends the implicit domain constraint to y_constraints and leaves
\* constraints without one, and with switched = TRUE appends it to
\* constraints and leaves y_constraints without one; a bilinear pairing
\* gets no domain constraint in either role.
C12_DomainConstraintOnOuterSide ==
    \A k \in 1..Len(kreprs) :
        LET K == kreprs[k].K
            inner_side == IF kreprs[k].switched THEN K.y_constraints
                          ELSE K.constraints
            outer_side == IF kreprs[k].switched THEN K.constraints
                          ELSE K.y_constraints
        IN /\ NeedsDomain(ccAtom) =>
                  /\ DomainAt(outer_side) = {Len(outer_side)}
                  /\ DomainAt(inner_side) = {}
                  /\ outer_side[Len(outer_side)].tag =
                         IF ccAtom.cls = "weighted_log_sum_exp"
                         THEN "weights >= 0" ELSE "Gy >= 0"
           /\ (ccAtom.cls \in {"saddle_inner", "inner"} /\ ccAtom.bilinear)
                  => /\ DomainAt(K.constraints) = {}
                     /\ DomainAt(K.y_constraints) = {}

C12_Witness ==
    /\ ccAtom.cls = "saddle_inner"
    /\ ~ccAtom.bilinear
    /\ ~is_nonneg(ccAtom.b)
    /\ Len(kreprs) = 2
    /\ ~kreprs[1].switched
    /\ DomainAt(kreprs[1].K.y_constraints) # {}
    /\ kreprs[2].switched
    /\ DomainAt(kreprs[2].K.constraints) # {}

\* C13 (as stated): for every atom variant, the representation returned
\* by get_K_repr with switched = FALSE carries the evaluator
\* get_concave_expression(), and the one returned with switched = TRUE the
\* evaluator yielding the negation of get_convex_expression().
C13_OneSignConvention ==
    \A k \in 1..Len(kreprs) :
        kreprs[k].K.concave_expr =
            IF kreprs[k].switched THEN "-get_convex_expression"
            ELSE "get_concave_expression"

(***************************************************************************)
(* Memoisation of the parser, checked under Spec.                          *)
(***************************************************************************)

\* Once _parser is set, the atom keeps it, its bound variables are and stay
\* tagged with the atom, and an access succeeds and changes no tag.
ParserKeptOnceSet ==
    \A i \in Built :
        atoms[i].parserSet =>
            /\ atoms'[i] = atoms[i]
            /\ \A v \in SeqToSet(atoms[i].vars) :
                   expr[v] = i /\ expr'[v] = i
            /\ (last'.atom = i /\ last'.op \in {"parser", "is_dsp"})
                   => (last'.err = NoError /\ last'.ret /\ expr' = expr)

\* An access (the constructor's included) that fails sets no tag and
\* leaves _parser unset.
FailedAccessSetsNothing ==
    (/\ last'.op \in {"construct", "parser", "is_dsp"}
     /\ (last'.err # NoError \/ ~last'.ret))
        => /\ expr' = expr
           /\ last'.atom # 0 => ~atoms'[last'.atom].parserSet

\* An atom whose _parser is unset fails again, with DSPError, on the next
\* access, and is_dsp() returns False.
UnsetParserFailsAgain ==
    \A i \in Built :
        ~atoms[i].parserSet =>
            /\ parser(atoms[i], i, expr).err = "DSPError"
            /\ ~is_dsp(atoms[i], i, expr).ret
            /\ is_dsp(atoms[i], i, expr).err = NoError

\* C14 (as stated): the parser is memoised all-or-nothing.  (i) Once an
\* access to atom.parser / is_dsp() has succeeded, every later access
\* returns the same parser without re-running the scope checks, and every
\* bound variable v has v.expr = atom.  (ii) If the scope checks fail,
\* _parser stays None and the access sets no bound variable's expr, so
\* every later access raises the same error and is_dsp() keeps returning
\* False.
C14_ParserAllOrNothing ==
    /\ []UnsetParserFailsAgain
    /\ [][ParserKeptOnceSet /\ FailedAccessSetsNothing]_vars

====
